---- MODULE Spec2Model ----
(***************************************************************************)
(* Model of agent/tools/shell.py: the whitelisted command-pipeline         *)
(* executor (run_safe_shell, run_pipeline) together with the child         *)
(* processes it spawns and the pipes that connect them.                    *)
(*                                                                         *)
(* Strings are sequences of one-character strings, so that str.strip,      *)
(* str.split, str.startswith and shlex.split are computed character by     *)
(* character, as the Python code computes them.                            *)
(***************************************************************************)
EXTENDS Integers, Sequences, FiniteSets, TLC

(***************************************************************************)
(* Bounds of the model.                                                    *)
(***************************************************************************)
\* a command is the concatenation of at most MaxAtoms words of Atoms
MaxAtoms == 4
\* every child process writes at most MaxChunks chunks to its standard output
MaxChunks == 1

(***************************************************************************)
(* Characters and words.                                                   *)
(***************************************************************************)
SP == " "
PIPE == "|"
DQ == "\""
SQ == "'"

\* str.strip() / shlex whitespace: space, tab, newline, carriage return
Whitespace == {" ", "\t", "\n", "\r"}
\* shlex.quotes
Quotes == {DQ, SQ}

W_ls == <<"l", "s">>
W_rm == <<"r", "m">>
W_git == <<"g", "i", "t">>
W_status == <<"s", "t", "a", "t", "u", "s">>

\* shell.py:12-16
ALLOWED_PREFIXES ==
    << <<"l", "s">>, <<"d", "i", "r">>, <<"t", "r", "e", "e">>,
       <<"f", "i", "n", "d">>, <<"g", "r", "e", "p">>, <<"r", "g">>,
       <<"c", "a", "t">>, <<"h", "e", "a", "d">>, <<"t", "a", "i", "l">>,
       <<"w", "c">>,
       <<"g", "i", "t", " ", "s", "t", "a", "t", "u", "s">>,
       <<"g", "i", "t", " ", "d", "i", "f", "f">>,
       <<"g", "i", "t", " ", "l", "o", "g">>,
       <<"g", "i", "t", " ", "b", "r", "a", "n", "c", "h">>,
       <<"g", "i", "t", " ", "r", "e", "m", "o", "t", "e">>,
       <<"e", "c", "h", "o">>, <<"p", "w", "d">>, <<"d", "a", "t", "e">> >>

(***************************************************************************)
(* Python string operations.                                               *)
(***************************************************************************)
\* str.startswith(prefix)
StartsWith(s, prefix) ==
    /\ Len(prefix) <= Len(s)
    /\ \A k \in 1..Len(prefix) : s[k] = prefix[k]

\* number of leading whitespace characters of s
RECURSIVE LeadingWs(_)
LeadingWs(s) ==
    IF s = <<>> \/ Head(s) \notin Whitespace THEN 0 ELSE 1 + LeadingWs(Tail(s))

\* number of trailing whitespace characters of s
RECURSIVE TrailingWs(_)
TrailingWs(s) ==
    IF s = <<>> \/ s[Len(s)] \notin Whitespace
    THEN 0
    ELSE 1 + TrailingWs(SubSeq(s, 1, Len(s) - 1))

\* str.strip()
Strip(s) ==
    IF LeadingWs(s) = Len(s)
    THEN <<>>
    ELSE SubSeq(s, LeadingWs(s) + 1, Len(s) - TrailingWs(s))

\* str.split(sep) for a one-character separator: always at least one field
RECURSIVE SplitOn(_, _, _, _)
SplitOn(s, sep, cur, acc) ==
    IF s = <<>> THEN Append(acc, cur)
    ELSE IF Head(s) = sep THEN SplitOn(Tail(s), sep, <<>>, Append(acc, cur))
    ELSE SplitOn(Tail(s), sep, Append(cur, Head(s)), acc)

Split(s, sep) == SplitOn(s, sep, <<>>, <<>>)

\* shlex.split(s) in POSIX mode, over an alphabet without backslash and '#'.
\* open is the quote character being read ("" outside quotes), started tells
\* whether a token is in progress (an empty quoted string is a token).
\* The result is [ok |-> FALSE] for "No closing quotation" (ValueError).
RECURSIVE ShlexScan(_, _, _, _, _)
ShlexScan(s, open, started, cur, toks) ==
    IF s = <<>>
    THEN IF open # "" THEN [ok |-> FALSE, toks |-> <<>>]
         ELSE [ok |-> TRUE, toks |-> IF started THEN Append(toks, cur) ELSE toks]
    ELSE LET c == Head(s) IN
         IF open # ""
         THEN IF c = open
              THEN ShlexScan(Tail(s), "", TRUE, cur, toks)
              ELSE ShlexScan(Tail(s), open, TRUE, Append(cur, c), toks)
         ELSE IF c \in Whitespace
              THEN IF started
                   THEN ShlexScan(Tail(s), "", FALSE, <<>>, Append(toks, cur))
                   ELSE ShlexScan(Tail(s), "", FALSE, <<>>, toks)
              ELSE IF c \in Quotes
                   THEN ShlexScan(Tail(s), c, TRUE, cur, toks)
                   ELSE ShlexScan(Tail(s), "", TRUE, Append(cur, c), toks)

ShlexSplit(s) == ShlexScan(s, "", FALSE, <<>>, <<>>)

(***************************************************************************)
(* Inputs: the command strings the caller may pass.                        *)
(***************************************************************************)
Atoms == {W_ls, W_rm, W_git, W_status, <<SP>>, <<PIPE>>, <<DQ>>}

RECURSIVE CommandsUpTo(_)
CommandsUpTo(n) ==
    IF n = 0 THEN {<<>>}
    ELSE CommandsUpTo(n - 1) \cup
         {c \o a : c \in CommandsUpTo(n - 1), a \in Atoms}

Commands == CommandsUpTo(MaxAtoms)

\* what a spawned program does: exit with status 0, exit with status 0 after
\* writing a warning to its standard error, exit with a non-zero status
\* after writing to its standard error, or never exit
Behaviours == {"ok", "warn", "fail", "forever"}
\* the programs that write to their standard error
WritesError == {"warn", "fail"}

(***************************************************************************)
(* Python values.                                                          *)
(***************************************************************************)
\* an Optional[str]: None, or a text (a sequence of chunks)
NoneVal == [none |-> TRUE, text |-> <<>>]
Str(t) == [none |-> FALSE, text |-> t]
\* Python's `a or b` on Optional[str]: a unless it is None or empty
PyOr(a, b) == IF a.none \/ a.text = <<>> THEN b ELSE a

\* the exceptions run_pipeline lets out; returncode, cmd (the arguments that
\* " ".join(p.args) joins), output and stderr are the attributes of
\* CalledProcessError, the last two None unless the constructor is given them
NoClosingQuotation ==
    [type |-> "ValueError", msg |-> "No closing quotation", program |-> <<>>,
     returncode |-> 0, cmd |-> <<>>, output |-> NoneVal, stderr |-> NoneVal]
NotAllowed(program) ==
    [type |-> "ValueError", msg |-> "is not allowed", program |-> program,
     returncode |-> 0, cmd |-> <<>>, output |-> NoneVal, stderr |-> NoneVal]
FileNotFound(program) ==
    [type |-> "FileNotFoundError", msg |-> "No such file or directory",
     program |-> program, returncode |-> 0, cmd |-> <<>>,
     output |-> NoneVal, stderr |-> NoneVal]
CalledProcessError(returncode, args) ==
    [type |-> "CalledProcessError", msg |-> "non-zero exit status",
     program |-> args[1], returncode |-> returncode, cmd |-> args,
     output |-> NoneVal, stderr |-> NoneVal]

\* what a call gives its caller: ret is "returned" or "raised"; kind is the
\* message returned or the exception type raised; returncode and cmd are
\* those of the exception raised
Returned(kind, msg, program, out, text) ==
    [ret |-> "returned", kind |-> kind, msg |-> msg, program |-> program,
     returncode |-> 0, cmd |-> <<>>, output |-> out, text |-> text]
Escaped(e) ==
    [ret |-> "raised", kind |-> e.type, msg |-> e.msg, program |-> e.program,
     returncode |-> e.returncode, cmd |-> e.cmd, output |-> <<>>,
     text |-> NoneVal]

(***************************************************************************)
(* State.                                                                  *)
(***************************************************************************)
VARIABLES
    entry,      \* the function the caller invoked
    cmd,        \* its argument
    pc,         \* where the executor is: "call", "spawning", "collecting", "done"
    idx,        \* run_pipeline: index in parts of the next part of the for loop
    procs,      \* run_pipeline: processes, the Popen objects in spawn order
    pipe,       \* pipe[k]: unread chunks in the stdout pipe of process k
    j,          \* run_pipeline: index in processes of the communicate() loop
    output,     \* run_pipeline: the output collected so far
    tty,        \* processes whose error text went to the inherited stderr
    result      \* what the call gave its caller

shellVars == <<entry, cmd, pc, idx, procs, pipe, j, output, tty, result>>

(***************************************************************************)
(* State of the other modules of the package. Each module is exercised by  *)
(* a specification of its own and is idle in the others.                   *)
(***************************************************************************)
VARIABLES
    heap,        \* __init__.py: the list objects, object id -> names of its schemas
    binding,     \* __init__.py: module-level name -> id of the list it is bound to
    loadpc,      \* __init__.py: the next line of the module body to run
    dispatched,  \* execute_tool: the calls made, each with the executor it reached
    fs,          \* memory.py: the files, each absent or with its content
    lastWrite,   \* memory.py: the last call of write_memory_file and its result
    logs,        \* llm_log_analyzer.py: what load_recent_logs returns
    filter_expr, \* query_llm_logs: its first argument
    limit,       \* query_llm_logs: its second argument
    results,     \* query_llm_logs: what the call returned
    file,        \* reliability.py: tool-reliability.json, readable or not
    wk,          \* reliability.py: each caller of record_tool_reliability
    completed    \* tool name -> number of record calls that returned normally
toolsVars == <<heap, binding, loadpc, dispatched>>
ToolsIdle == heap = <<>> /\ binding = <<>> /\ loadpc = 0 /\ dispatched = <<>>

memoryVars == <<fs, lastWrite>>
MemoryIdle == fs = <<>> /\ lastWrite = <<>>

logVars == <<logs, filter_expr, limit, results>>
LogsIdle == logs = <<>> /\ filter_expr = <<>> /\ limit = 0 /\ results = <<>>

reliabilityVars == <<file, wk, completed>>
ReliabilityIdle == file = <<>> /\ wk = <<>> /\ completed = <<>>

vars == <<shellVars, toolsVars, memoryVars, logVars, reliabilityVars>>
\* the state outside each module
notShell == <<toolsVars, memoryVars, logVars, reliabilityVars>>
notTools == <<shellVars, memoryVars, logVars, reliabilityVars>>
notMemory == <<shellVars, toolsVars, logVars, reliabilityVars>>
notLogs == <<shellVars, toolsVars, memoryVars, reliabilityVars>>
notReliability == <<shellVars, toolsVars, memoryVars, logVars>>

Pending == [ret |-> "pending", kind |-> "", msg |-> "", program |-> <<>>,
            returncode |-> 0, cmd |-> <<>>, output |-> <<>>, text |-> NoneVal]

\* no call of the shell tool is in progress
ShellIdle ==
    /\ entry = "" /\ cmd = <<>> /\ pc = "idle" /\ idx = 1 /\ procs = <<>>
    /\ pipe = <<>> /\ j = 1 /\ output = <<>> /\ tty = {} /\ result = Pending

\* shell.py:34
Parts(c) == [k \in 1..Len(Split(c, PIPE)) |-> Strip(Split(c, PIPE)[k])]

\* shell.py:42 and shell.py:84
AnyPrefix(s) ==
    \E k \in 1..Len(ALLOWED_PREFIXES) : StartsWith(s, ALLOWED_PREFIXES[k])

\* a stage check that lets every program through
StageAllowed_Unchecked(args) == TRUE

\* shell.py:42: the test a stage must pass, on its first token
StageAllowed(args) == AnyPrefix(Strip(args[1]))

\* shell.py:84: the test of run_safe_shell, on the whole command
CommandAllowed(c) == AnyPrefix(Strip(c))

Init ==
    /\ entry \in {"run_safe_shell", "run_pipeline"}
    /\ cmd \in Commands
    /\ pc = "call"
    /\ idx = 1
    /\ procs = <<>>
    /\ pipe = <<>>
    /\ j = 1
    /\ output = <<>>
    /\ tty = {}
    /\ result = Pending
    /\ ToolsIdle /\ MemoryIdle /\ LogsIdle /\ ReliabilityIdle

(***************************************************************************)
(* run_safe_shell, shell.py:71-108.                                        *)
(***************************************************************************)
\* shell.py:83: first_word
FirstWord(c) == ShlexSplit(c).toks[1]

\* shell.py:101-108: the except clauses around run_pipeline
Handle(e, c) ==
    IF e.type = "TimeoutExpired"
    THEN Returned("Command timed out after 10 seconds", "", <<>>, <<>>, NoneVal)
    ELSE IF e.type = "CalledProcessError"
    THEN Returned("Execution error", "", <<>>, <<>>, PyOr(e.stderr, e.output))
    ELSE IF e.type = "FileNotFoundError"
    THEN Returned("Command not found", "", FirstWord(c), <<>>, NoneVal)
    ELSE Returned("Unexpected shell error", e.msg, e.program, <<>>, NoneVal)

\* an exception leaving run_pipeline: to the except clauses of run_safe_shell,
\* or to the caller of run_pipeline
Raise(e) ==
    /\ pc' = "done"
    /\ result' = IF entry = "run_safe_shell" THEN Handle(e, cmd) ELSE Escaped(e)

\* run_pipeline returns its output: shell.py:68, then shell.py:98-99
Return(out) ==
    /\ pc' = "done"
    /\ result' = Returned("output", "", <<>>, out, NoneVal)

\* shell.py:79-80
SafeShellEmpty ==
    /\ pc = "call" /\ entry = "run_safe_shell"
    /\ Strip(cmd) = <<>>
    /\ pc' = "done"
    /\ result' = Returned("Error: empty command", "", <<>>, <<>>, NoneVal)
    /\ UNCHANGED <<entry, cmd, idx, procs, pipe, j, output, tty>>

\* shell.py:83: shlex.split(cmd) outside the try block
SafeShellQuoteError ==
    /\ pc = "call" /\ entry = "run_safe_shell"
    /\ Strip(cmd) # <<>>
    /\ ~ShlexSplit(cmd).ok
    /\ pc' = "done"
    /\ result' = Escaped(NoClosingQuotation)
    /\ UNCHANGED <<entry, cmd, idx, procs, pipe, j, output, tty>>

\* shell.py:84-91
SafeShellNotAllowed ==
    /\ pc = "call" /\ entry = "run_safe_shell"
    /\ Strip(cmd) # <<>>
    /\ ShlexSplit(cmd).ok
    /\ ~CommandAllowed(cmd)
    /\ pc' = "done"
    /\ result' = Returned("Error: Command not allowed for safety reasons",
                          "", <<>>, <<>>, NoneVal)
    /\ UNCHANGED <<entry, cmd, idx, procs, pipe, j, output, tty>>

\* shell.py:93-96: into run_pipeline
SafeShellRun ==
    /\ pc = "call" /\ entry = "run_safe_shell"
    /\ Strip(cmd) # <<>>
    /\ ShlexSplit(cmd).ok
    /\ CommandAllowed(cmd)
    /\ pc' = "spawning"
    /\ UNCHANGED <<entry, cmd, idx, procs, pipe, j, output, tty, result>>

\* a direct call of run_pipeline: shell.py:34-36
PipelineCall ==
    /\ pc = "call" /\ entry = "run_pipeline"
    /\ pc' = "spawning"
    /\ UNCHANGED <<entry, cmd, idx, procs, pipe, j, output, tty, result>>

(***************************************************************************)
(* run_pipeline, shell.py:29-68: the loop over the parts.                  *)
(***************************************************************************)
InLoop == pc = "spawning" /\ idx <= Len(Parts(cmd))

\* shell.py:39 on the current part
Args == ShlexSplit(Parts(cmd)[idx])

\* shell.py:39: shlex.split raises ValueError
StageQuoteError ==
    /\ InLoop
    /\ ~Args.ok
    /\ Raise(NoClosingQuotation)
    /\ UNCHANGED <<entry, cmd, idx, procs, pipe, j, output, tty>>

\* shell.py:40-41
StageSkip ==
    /\ InLoop
    /\ Args.ok /\ Args.toks = <<>>
    /\ idx' = idx + 1
    /\ UNCHANGED <<entry, cmd, pc, procs, pipe, j, output, tty, result>>

\* shell.py:42-43
StageReject ==
    /\ InLoop
    /\ Args.ok /\ Args.toks # <<>>
    /\ ~StageAllowed(Args.toks)
    /\ Raise(NotAllowed(Args.toks[1]))
    /\ UNCHANGED <<entry, cmd, idx, procs, pipe, j, output, tty>>

\* subprocess.Popen(args, [stdin=prev_stdout,] stdout=PIPE, text=True):
\* stdin is 0 for the inherited one or the process whose stdout it reads;
\* stderr is not redirected, so the child inherits the caller's; part is the
\* index in parts of the stage the process runs
Popen(args, stdin, part, behaviour) ==
    [args |-> args, stdin |-> stdin, stdout |-> "PIPE", stderr |-> "inherit",
     part |-> part, behaviour |-> behaviour, state |-> "running", status |-> 0,
     reaped |-> FALSE, written |-> 0, seen |-> <<>>]

\* a spawn that wires stdin to the part before, blank or not, where the code
\* wires it to the last process spawned
StageSpawn_WiredByPosition ==
    /\ InLoop
    /\ Args.ok /\ Args.toks # <<>>
    /\ StageAllowed(Args.toks)
    /\ \E b \in Behaviours :
          procs' = Append(procs, Popen(Args.toks, idx - 1, idx, b))
    /\ pipe' = Append(pipe, <<>>)
    /\ idx' = idx + 1
    /\ UNCHANGED <<entry, cmd, pc, j, output, tty, result>>

\* shell.py:45-52: prev_stdout is the stdout of the last process spawned
StageSpawn ==
    /\ InLoop
    /\ Args.ok /\ Args.toks # <<>>
    /\ StageAllowed(Args.toks)
    /\ \E b \in Behaviours :
          procs' = Append(procs, Popen(Args.toks, Len(procs), idx, b))
    /\ pipe' = Append(pipe, <<>>)
    /\ idx' = idx + 1
    /\ UNCHANGED <<entry, cmd, pc, j, output, tty, result>>

\* shell.py:47/50: Popen raises FileNotFoundError, no such program on the host
StageNotFound ==
    /\ InLoop
    /\ Args.ok /\ Args.toks # <<>>
    /\ StageAllowed(Args.toks)
    /\ Raise(FileNotFound(Args.toks[1]))
    /\ UNCHANGED <<entry, cmd, idx, procs, pipe, j, output, tty>>

\* shell.py:54-55: the loop over the parts ends
SpawnDone ==
    /\ pc = "spawning" /\ idx > Len(Parts(cmd))
    /\ pc' = "collecting"
    /\ j' = 1
    /\ output' = <<>>
    /\ UNCHANGED <<entry, cmd, idx, procs, pipe, tty, result>>

(***************************************************************************)
(* run_pipeline, shell.py:54-68: collecting the output, checking the       *)
(* return codes.                                                           *)
(***************************************************************************)
Collecting == pc = "collecting" /\ j <= Len(procs)

\* what communicate() returns as stderr: None for a stream that is no pipe
CommunicateStderr(p) == IF p.stderr = "PIPE" THEN Str(<<>>) ELSE NoneVal

\* shell.py:57: communicate() of process j reads what is in its stdout pipe
CommRead ==
    /\ Collecting
    /\ pipe[j] # <<>>
    /\ output' = Append(output, Head(pipe[j]))
    /\ pipe' = [pipe EXCEPT ![j] = Tail(pipe[j])]
    /\ UNCHANGED <<entry, cmd, pc, idx, procs, j, tty, result>>

\* a communicate() that runs a failed process once more, where the code makes
\* one attempt
CommReturn_Retry ==
    /\ Collecting
    /\ pipe[j] = <<>>
    /\ procs[j].state = "exited"
    /\ IF procs[j].status # 0 /\ ~procs[j].reaped
       THEN /\ procs' = [procs EXCEPT ![j].state = "running",
                                      ![j].behaviour = "ok",
                                      ![j].reaped = TRUE]
            /\ UNCHANGED <<output, j>>
       ELSE /\ procs' = [procs EXCEPT ![j].reaped = TRUE]
            /\ UNCHANGED output
            /\ j' = j + 1
    /\ UNCHANGED <<entry, cmd, pc, idx, pipe, tty, result>>

\* shell.py:57-61: communicate() of process j returns, at the end of file of
\* its stdout (the process has exited, the pipe is drained) and after wait()
CommReturn ==
    /\ Collecting
    /\ pipe[j] = <<>>
    /\ procs[j].state = "exited"
    /\ procs' = [procs EXCEPT ![j].reaped = TRUE]
    /\ output' = IF PyOr(CommunicateStderr(procs[j]), Str(<<>>)).text # <<>>
                 THEN Append(output, <<"Error:", j>>)
                 ELSE output
    /\ j' = j + 1
    /\ UNCHANGED <<entry, cmd, pc, idx, pipe, tty, result>>

\* shell.py:64-66: the processes with a non-zero return code
Failed == {k \in 1..Len(procs) : procs[k].status # 0}
\* the last one, where the code takes the first
LastFailed == CHOOSE k \in Failed : \A m \in Failed : k >= m
FirstFailed == CHOOSE k \in Failed : \A m \in Failed : k <= m

\* shell.py:64-66
CheckRaise ==
    /\ pc = "collecting" /\ j > Len(procs)
    /\ Failed # {}
    /\ Raise(CalledProcessError(procs[FirstFailed].status,
                                procs[FirstFailed].args))
    /\ UNCHANGED <<entry, cmd, idx, procs, pipe, j, output, tty>>

\* shell.py:68
CheckReturn ==
    /\ pc = "collecting" /\ j > Len(procs)
    /\ Failed = {}
    /\ Return(output)
    /\ UNCHANGED <<entry, cmd, idx, procs, pipe, j, output, tty>>

(***************************************************************************)
(* The child processes: independently scheduled.                           *)
(***************************************************************************)
\* process k writes a chunk to its standard output, the pipe of shell.py:47/50
ProcWrite(k) ==
    /\ procs[k].state = "running"
    /\ procs[k].written < MaxChunks
    /\ pipe' = [pipe EXCEPT ![k] = Append(pipe[k], <<k, procs[k].written + 1>>)]
    /\ procs' = [procs EXCEPT ![k].written = procs[k].written + 1]
    /\ UNCHANGED <<entry, cmd, pc, idx, j, output, tty, result>>

\* process k reads a chunk from its standard input, the stdout pipe of the
\* process before it (shell.py:50, stdin=prev_stdout)
ProcRead(k) ==
    /\ procs[k].state = "running"
    /\ procs[k].stdin # 0
    /\ pipe[procs[k].stdin] # <<>>
    /\ procs' = [procs EXCEPT ![k].seen =
                    Append(procs[k].seen, Head(pipe[procs[k].stdin]))]
    /\ pipe' = [pipe EXCEPT ![procs[k].stdin] = Tail(pipe[procs[k].stdin])]
    /\ UNCHANGED <<entry, cmd, pc, idx, j, output, tty, result>>

\* process k exits; one that writes error text has written it to its
\* standard error, which is the caller's
ProcExit(k) ==
    /\ procs[k].state = "running"
    /\ procs[k].behaviour # "forever"
    /\ procs' = [procs EXCEPT ![k].state = "exited",
                              ![k].status =
                                  IF procs[k].behaviour = "fail" THEN 1 ELSE 0]
    /\ tty' = IF procs[k].behaviour \in WritesError
                 /\ procs[k].stderr = "inherit"
              THEN tty \cup {k}
              ELSE tty
    /\ UNCHANGED <<entry, cmd, pc, idx, pipe, j, output, result>>

Next ==
    \/ SafeShellEmpty /\ UNCHANGED notShell
    \/ SafeShellQuoteError /\ UNCHANGED notShell
    \/ SafeShellNotAllowed /\ UNCHANGED notShell
    \/ SafeShellRun /\ UNCHANGED notShell
    \/ PipelineCall /\ UNCHANGED notShell
    \/ StageQuoteError /\ UNCHANGED notShell
    \/ StageSkip /\ UNCHANGED notShell
    \/ StageReject /\ UNCHANGED notShell
    \/ StageSpawn /\ UNCHANGED notShell
    \/ StageNotFound /\ UNCHANGED notShell
    \/ SpawnDone /\ UNCHANGED notShell
    \/ CommRead /\ UNCHANGED notShell
    \/ CommReturn /\ UNCHANGED notShell
    \/ CheckRaise /\ UNCHANGED notShell
    \/ CheckReturn /\ UNCHANGED notShell
    \/ \E k \in 1..Len(procs) : ProcWrite(k) /\ UNCHANGED notShell
    \/ \E k \in 1..Len(procs) : ProcRead(k) /\ UNCHANGED notShell
    \/ \E k \in 1..Len(procs) : ProcExit(k) /\ UNCHANGED notShell

Spec == Init /\ [][Next]_vars

(***************************************************************************)
(* Vocabulary of the properties.                                           *)
(***************************************************************************)
\* the stages of a command: its parts that tokenize to at least one token
IsStage(part) == ShlexSplit(part).ok /\ ShlexSplit(part).toks # <<>>
\* the program name of a stage: its first token
ProgramName(part) == ShlexSplit(part).toks[1]
\* every part of the command tokenizes (no unterminated quote)
WellFormed(c) == \A k \in 1..Len(Parts(c)) : ShlexSplit(Parts(c)[k]).ok
\* some stage's program name begins with no whitelist entry
HasInvalidStage(c) ==
    \E k \in 1..Len(Parts(c)) :
        IsStage(Parts(c)[k]) /\ ~AnyPrefix(ProgramName(Parts(c)[k]))
\* the command has a stage, and every stage's program name begins with a
\* whitelist entry
AllStagesValid(c) ==
    /\ \E k \in 1..Len(Parts(c)) : Parts(c)[k] # <<>>
    /\ \A k \in 1..Len(Parts(c)) :
          Parts(c)[k] # <<>> =>
              IsStage(Parts(c)[k]) /\ AnyPrefix(ProgramName(Parts(c)[k]))
\* the call ended in a policy rejection: the 'Command not allowed' result of
\* run_safe_shell, or the 'is not allowed' error of run_pipeline
PolicyRejection ==
    /\ pc = "done"
    /\ \/ result.kind = "Error: Command not allowed for safety reasons"
       \/ result.msg = "is not allowed"
\* the whitelist entries of more than one word
MultiWord == {k \in 1..Len(ALLOWED_PREFIXES) :
                 \E n \in 1..Len(ALLOWED_PREFIXES[k]) :
                     ALLOWED_PREFIXES[k][n] = SP}
BeginsMultiWord(part) ==
    \E k \in MultiWord : StartsWith(part, ALLOWED_PREFIXES[k])
\* bare "git" followed by a subcommand that is in no whitelist entry
BareGitOther(part) ==
    /\ IsStage(part)
    /\ ProgramName(part) = W_git
    /\ Len(ShlexSplit(part).toks) > 1
    /\ ~BeginsMultiWord(part)
Spawned(k) == \E n \in 1..Len(procs) : procs[n].part = k

(***************************************************************************)
(* C1: when a well-formed command has a stage whose program name matches   *)
(* no whitelist entry, no process is spawned at any point of the call and  *)
(* the call ends in a policy rejection.                                    *)
(***************************************************************************)
C1_NoSpawnBeforeFullValidation ==
    (WellFormed(cmd) /\ HasInvalidStage(cmd)) =>
        /\ procs = <<>>
        /\ pc = "done" => PolicyRejection

C3_ValidCommandNeverRejected ==
    (entry = "run_safe_shell" /\ AllStagesValid(cmd)) =>
        /\ ~PolicyRejection
        /\ (pc = "collecting" =>
               \A k \in 1..Len(Parts(cmd)) : Parts(cmd)[k] # <<>> => Spawned(k))

(***************************************************************************)
(* C4: the whitelist is matched against the whole text of a stage: a stage *)
(* that begins with a multi-word entry ("git status", ...) passes          *)
(* validation and is spawned, and a stage that is bare "git" with another  *)
(* subcommand is rejected, never spawned.                                  *)
(***************************************************************************)
C4_MultiWordEntriesMatchStageText ==
    \A k \in 1..Len(Parts(cmd)) :
        /\ BeginsMultiWord(Parts(cmd)[k]) =>
              ~(PolicyRejection /\ idx = k)
        /\ BareGitOther(Parts(cmd)[k]) => ~Spawned(k)

(***************************************************************************)
(* C5: every call eventually returns; a pipeline that has not completed    *)
(* within the timeout is force-terminated and the call returns a timeout   *)
(* failure, also when a stage would run forever.  Stated on finite runs:   *)
(* as long as the call has not returned, the executor or one of its        *)
(* processes can take a step (the call is never stuck for ever).           *)
(***************************************************************************)
\* the executor can take a step: it is validating and spawning, or it is in
\* a communicate() that has something to read or whose process has exited,
\* or it is past the last communicate()
ExecutorCanStep ==
    \/ pc \in {"call", "spawning"}
    \/ pc = "collecting" /\ j > Len(procs)
    \/ Collecting /\ (pipe[j] # <<>> \/ procs[j].state = "exited")
\* process k can take a step: write, read or exit
ProcessCanStep(k) ==
    /\ procs[k].state = "running"
    /\ \/ procs[k].written < MaxChunks
       \/ procs[k].behaviour # "forever"
       \/ procs[k].stdin # 0 /\ pipe[procs[k].stdin] # <<>>

C5_CallNeverHangs ==
    \/ pc = "done"
    \/ ExecutorCanStep
    \/ \E k \in 1..Len(procs) : ProcessCanStep(k)

(***************************************************************************)
(* C6: when a call of run_safe_shell returns, whatever its outcome, no     *)
(* process it spawned is still running.                                    *)
(***************************************************************************)
C6_NoProcessRunningAtReturn ==
    (entry = "run_safe_shell" /\ pc = "done") =>
        \A n \in 1..Len(procs) : procs[n].state = "exited"

(***************************************************************************)
(* C7: run_safe_shell gives every input a structured result and lets no    *)
(* exception out; a command with an unterminated quote in any stage is     *)
(* reported as a malformed command and spawns no process.                  *)
(***************************************************************************)
\* the results that report a malformed command
MalformedFailure ==
    /\ result.ret = "returned"
    /\ \/ result.kind = "Error: empty command"
       \/ result.msg = "No closing quotation"

C7_NoExceptionEscapes ==
    (entry = "run_safe_shell" /\ pc = "done") =>
        /\ result.ret = "returned"
        /\ ~WellFormed(cmd) => (MalformedFailure /\ procs = <<>>)

(***************************************************************************)
(* C8: a command with no stage (empty, only whitespace, or only pipe       *)
(* separators and whitespace) yields a malformed-command failure, which is *)
(* neither a policy rejection nor a successful empty result, and spawns    *)
(* no process.                                                             *)
(***************************************************************************)
NoStage(c) == \A k \in 1..Len(Parts(c)) : Parts(c)[k] = <<>>

C8_EmptyStageListIsMalformed ==
    (entry = "run_safe_shell" /\ NoStage(cmd)) =>
        /\ procs = <<>>
        /\ pc = "done" => (MalformedFailure /\ ~PolicyRejection
                              /\ result.kind # "output")

(***************************************************************************)
(* C9: the input stream of a stage is exactly the output stream of the     *)
(* stage before it, in order and without loss: nobody else, the executor   *)
(* included, consumes what the stage before it wrote.                      *)
(***************************************************************************)
\* the first n chunks process m wrote, in the order it wrote them
Stream(m, n) == [i \in 1..n |-> <<m, i>>]
\* the chunks of process m the executor has collected
CollectedFrom(m) == {i \in 1..Len(output) : output[i][1] = m}

C9_StageInputIsPreviousOutput ==
    \A n \in 1..Len(procs) :
        procs[n].stdin # 0 =>
            /\ procs[n].seen = Stream(procs[n].stdin, Len(procs[n].seen))
            /\ CollectedFrom(procs[n].stdin) = {}

(***************************************************************************)
(* C10: when a stage exits with a non-zero status, the failure result of   *)
(* run_safe_shell contains the error text of that stage.                   *)
(***************************************************************************)
\* the error text process n wrote: one chunk, if it wrote any
ErrorText(n) == <<"stderr", n>>

C10_FailureCarriesErrorText ==
    (entry = "run_safe_shell" /\ pc = "done"
        /\ result.kind = "Execution error") =>
        \E i \in 1..Len(result.text.text) :
            result.text.text[i] = ErrorText(FirstFailed)

(***************************************************************************)
(* C11: run_pipeline returns its output normally only if every spawned     *)
(* stage exited with status zero; when some stage exited non-zero, the     *)
(* failure raised carries the exit status and the command of the first     *)
(* non-zero stage in pipeline order.                                       *)
(***************************************************************************)
\* process n is the first, in pipeline order, that exited non-zero
IsFirstNonZero(n) ==
    /\ procs[n].state = "exited" /\ procs[n].status # 0
    /\ \A m \in 1..(n - 1) : procs[m].status = 0

C11_FirstNonZeroStageReported ==
    pc = "done" =>
        /\ result.kind = "output" =>
              \A n \in 1..Len(procs) :
                  procs[n].state = "exited" /\ procs[n].status = 0
        /\ (entry = "run_pipeline" /\ result.kind = "CalledProcessError") =>
              \E n \in 1..Len(procs) :
                  /\ IsFirstNonZero(n)
                  /\ result.returncode = procs[n].status
                  /\ result.cmd = procs[n].args

\* run_pipeline raised for a pipeline of which two stages with different
\* commands exited non-zero
C11_Witness ==
    /\ pc = "done" /\ entry = "run_pipeline"
    /\ result.kind = "CalledProcessError"
    /\ \E n, m \in 1..Len(procs) :
          /\ n < m /\ procs[n].status # 0 /\ procs[m].status # 0
          /\ procs[n].args # procs[m].args

(***************************************************************************)
(* C12: on normal completion of a pipeline the error text of every stage   *)
(* that wrote any is in the returned result, marked "Error:", the stages   *)
(* in pipeline order; no stage's error text is missing.                    *)
(***************************************************************************)
\* the positions in out of the "Error:" mark of process n
ErrorMarks(out, n) == {i \in 1..Len(out) : out[i] = <<"Error:", n>>}

C12_EveryStageErrorTextReturned ==
    (pc = "done" /\ result.kind = "output") =>
        /\ \A n \in 1..Len(procs) :
              procs[n].behaviour \in WritesError =>
                  ErrorMarks(result.output, n) # {}
        /\ \A n, m \in 1..Len(procs) :
              n < m =>
                  \A a \in ErrorMarks(result.output, n) :
                      \A b \in ErrorMarks(result.output, m) : a < b

(***************************************************************************)
(* C16: blank segments between two stages or after the last stage are      *)
(* dropped before validation: the stages validated and spawned, their      *)
(* wiring and the outcome are those of the command without the blank       *)
(* segments.                                                               *)
(***************************************************************************)
\* the segments joined again with the pipe character
RECURSIVE JoinPipe(_)
JoinPipe(segs) ==
    IF segs = <<>> THEN <<>>
    ELSE IF Len(segs) = 1 THEN segs[1]
    ELSE segs[1] \o <<PIPE>> \o JoinPipe(Tail(segs))
\* segment k comes after a stage and is blank
BlankAfterStage(segs, k) ==
    /\ Strip(segs[k]) = <<>>
    /\ \E m \in 1..(k - 1) : Strip(segs[m]) # <<>>
\* the segments of segs that are not blank segments after a stage
RECURSIVE KeepFrom(_, _)
KeepFrom(segs, k) ==
    IF k > Len(segs) THEN <<>>
    ELSE IF BlankAfterStage(segs, k) THEN KeepFrom(segs, k + 1)
    ELSE <<segs[k]>> \o KeepFrom(segs, k + 1)
\* the command without its blank segments between and after the stages
Squeeze(c) == JoinPipe(KeepFrom(Split(c, PIPE), 1))
\* the non-blank parts of a command, in order
StageParts(c) == SelectSeq(Parts(c), LAMBDA p : p # <<>>)
\* the outcome of the checks run_safe_shell makes before run_pipeline
EntryOutcome(c) ==
    IF Strip(c) = <<>> THEN "empty"
    ELSE IF ~ShlexSplit(c).ok THEN "no closing quotation"
    ELSE IF ~CommandAllowed(c) THEN "not allowed"
    ELSE "run"

C16_BlankSegmentsDropped ==
    LET squeezed == StageParts(Squeeze(cmd))
    IN  /\ pc = "call" => EntryOutcome(cmd) = EntryOutcome(Squeeze(cmd))
        /\ procs # <<>> =>
              /\ Len(procs) <= Len(squeezed)
              /\ \A n \in 1..Len(procs) :
                    /\ procs[n].args = ShlexSplit(squeezed[n]).toks
                    /\ procs[n].stdin = n - 1
        /\ pc = "collecting" => Len(procs) = Len(squeezed)
        /\ (pc = "done" /\ idx <= Len(Parts(cmd))
               /\ result.kind \notin {"Error: empty command",
                                      "Error: Command not allowed for safety reasons"}
               /\ ~(entry = "run_safe_shell" /\ result.ret = "raised")) =>
              Parts(cmd)[idx] = squeezed[Len(procs) + 1]

\* two stages were spawned from a command with a blank segment between or
\* after them
C16_Witness ==
    /\ cmd # Squeeze(cmd)
    /\ pc = "collecting"
    /\ Len(procs) = 2

(***************************************************************************)
(* C17: within one call a stage only moves forward through Pending,        *)
(* Validated, Spawned and one terminal state (Completed, Killed, Failed):  *)
(* it is never spawned before it is validated, is spawned at most once,    *)
(* and never leaves a terminal state.                                      *)
(***************************************************************************)
\* the processes spawned for part k
ProcsOf(k) == {n \in 1..Len(procs) : procs[n].part = k}
\* the state of the stage of part k; validation and spawning are one step of
\* the loop, so a stage that passed validation is seen as Spawned
StageState(k) ==
    IF ProcsOf(k) = {} THEN "Pending"
    ELSE LET p == procs[CHOOSE n \in ProcsOf(k) : TRUE] IN
         IF p.state = "running" THEN "Spawned"
         ELSE IF p.status = 0 THEN "Completed" ELSE "Failed"
Rank(state) ==
    IF state = "Pending" THEN 0
    ELSE IF state = "Spawned" THEN 2
    ELSE 3
StageRank(k) == Rank(StageState(k))
TerminalStates == {"Completed", "Killed", "Failed"}
\* the parts that have a process before or after the step; every other
\* part is Pending on both sides of the step
Touched == {procs[n].part : n \in 1..Len(procs)}
StagesOfStep == Touched \cup Touched'

C17_StageMovesForward ==
    [][LET parts == Parts(cmd) IN
       \A k \in StagesOfStep :
          LET before == StageState(k)
              after  == StageState(k)'
              old    == ProcsOf(k)
              new    == ProcsOf(k)'
          IN  /\ k \in 1..Len(parts)
              /\ Rank(after) >= Rank(before)
              /\ before \in TerminalStates => after = before
              /\ Cardinality(new) <= 1
              /\ \A n \in old :
                    n \in new /\ procs'[n].args = procs[n].args
              /\ \A n \in new \ old :
                    /\ procs'[n].args = ShlexSplit(parts[k]).toks
                    /\ AnyPrefix(Strip(procs'[n].args[1]))]_vars

\* of two stages of one pipeline, one has failed and the other completed
C17_Witness ==
    \E k, m \in 1..Len(Parts(cmd)) :
        StageState(k) = "Failed" /\ StageState(m) = "Completed"

(***************************************************************************)
(* The dispatcher, __init__.py.                                            *)
(*                                                                         *)
(* A schema is represented by its function name. The module body builds    *)
(* ALL_TOOLS at import; a Python list is an object on the heap and a       *)
(* module-level name is bound to it, so that two names bound to one list   *)
(* see each other's changes.                                               *)
(***************************************************************************)
MaxGithubTools == 2
MaxCalls == 2

\* the schema lists as their modules declare them
SHELL_TOOLS == <<"run_safe_shell">>
LLM_LOG_TOOLS == <<"summarize_llm_logs", "query_llm_logs">>
RELIABILITY_TOOLS == <<"record_tool_reliability", "list_tool_reliability">>
MEMORY_TOOL == "write_memory_file"
\* github.py is not part of the sources: its schema list is any list of
\* names of its own
GithubNames == {"create_issue", "list_issues"}
GITHUB_TOOLS ==
    UNION {[1..n -> GithubNames] : n \in 0..MaxGithubTools}

Range(seq) == {seq[i] : i \in 1..Len(seq)}
\* the list a module-level name is bound to, as it is now
Deref(name) == heap[binding[name]]

ToolsInit ==
    /\ \E github \in GITHUB_TOOLS :
          heap = <<SHELL_TOOLS, github, LLM_LOG_TOOLS, RELIABILITY_TOOLS>>
    /\ binding = [SHELL_TOOLS |-> 1, GITHUB_TOOLS |-> 2, LLM_LOG_TOOLS |-> 3,
                  RELIABILITY_TOOLS |-> 4, ALL_TOOLS |-> 0]
    /\ loadpc = 11
    /\ dispatched = <<>>

\* list.extend(items): the object the name is bound to grows in place
Extend(name, items) == [heap EXCEPT ![binding[name]] = @ \o items]

\* line 11: ALL_TOOLS = SHELL_TOOLS binds a second name to the same list
LoadAllTools ==
    /\ loadpc = 11
    /\ binding' = [binding EXCEPT !.ALL_TOOLS = binding.SHELL_TOOLS]
    /\ loadpc' = 12
    /\ UNCHANGED <<heap, dispatched>>

LoadExtendGithub ==
    /\ loadpc = 12
    /\ heap' = Extend("ALL_TOOLS", Deref("GITHUB_TOOLS"))
    /\ loadpc' = 13
    /\ UNCHANGED <<binding, dispatched>>

LoadExtendLlmLog ==
    /\ loadpc = 13
    /\ heap' = Extend("ALL_TOOLS", Deref("LLM_LOG_TOOLS"))
    /\ loadpc' = 14
    /\ UNCHANGED <<binding, dispatched>>

LoadExtendReliability ==
    /\ loadpc = 14
    /\ heap' = Extend("ALL_TOOLS", Deref("RELIABILITY_TOOLS"))
    /\ loadpc' = 15
    /\ UNCHANGED <<binding, dispatched>>

LoadExtendMemory ==
    /\ loadpc = 15
    /\ heap' = Extend("ALL_TOOLS", <<MEMORY_TOOL>>)
    /\ loadpc' = 17
    /\ UNCHANGED <<binding, dispatched>>

\* the executor execute_tool passes the name to, lines 18-28
Route(name) ==
    IF name = "write_memory_file" THEN "execute_memory_tool"
    ELSE IF name \in Range(Deref("RELIABILITY_TOOLS"))
        THEN "execute_reliability_tool"
    ELSE IF name \in Range(Deref("LLM_LOG_TOOLS")) THEN "execute_llm_log_tool"
    ELSE IF name \in Range(Deref("SHELL_TOOLS")) THEN "execute_shell_tool"
    ELSE IF name \in Range(Deref("GITHUB_TOOLS")) THEN "execute_github_tool"
    ELSE "none"

\* the names an executor has a function for
Handles(executor) ==
    IF executor = "execute_memory_tool" THEN {"write_memory_file"}
    ELSE IF executor = "execute_reliability_tool"
        THEN {"record_tool_reliability", "list_tool_reliability"}
    ELSE IF executor = "execute_llm_log_tool"
        THEN {"summarize_llm_logs", "query_llm_logs"}
    ELSE IF executor = "execute_shell_tool" THEN {"run_safe_shell"}
    ELSE IF executor = "execute_github_tool" THEN Range(heap[2])
    ELSE {}

\* what the caller of execute_tool gets
Outcome(name) ==
    IF Route(name) = "none" THEN "not implemented in any module"
    ELSE IF name \in Handles(Route(name)) THEN "function"
    ELSE "unknown tool"

ToolNames ==
    Range(SHELL_TOOLS) \cup Range(LLM_LOG_TOOLS) \cup Range(RELIABILITY_TOOLS)
        \cup {MEMORY_TOOL} \cup GithubNames \cup {"deploy"}

execute_tool ==
    /\ loadpc = 17
    /\ Len(dispatched) < MaxCalls
    /\ \E name \in ToolNames :
          dispatched' = Append(dispatched,
              [name |-> name, executor |-> Route(name),
               outcome |-> Outcome(name)])
    /\ UNCHANGED <<heap, binding, loadpc>>

ToolsNext ==
    \/ LoadAllTools /\ UNCHANGED notTools
    \/ LoadExtendGithub /\ UNCHANGED notTools
    \/ LoadExtendLlmLog /\ UNCHANGED notTools
    \/ LoadExtendReliability /\ UNCHANGED notTools
    \/ LoadExtendMemory /\ UNCHANGED notTools
    \/ execute_tool /\ UNCHANGED notTools

InitTools ==
    ToolsInit /\ ShellIdle /\ MemoryIdle /\ LogsIdle /\ ReliabilityIdle
SpecTools == InitTools /\ [][ToolsNext]_vars

(***************************************************************************)
(* C13: for every tool name declared in a module's schema list,            *)
(* execute_tool calls the executor of the module that declared the name,   *)
(* which runs the function, and only a name declared by no module yields   *)
(* the "not implemented in any module" result.                             *)
(***************************************************************************)
Modules ==
    {"execute_shell_tool", "execute_github_tool", "execute_llm_log_tool",
     "execute_reliability_tool", "execute_memory_tool"}
\* the names a module declares in its schema list
Declared(executor) ==
    IF executor = "execute_shell_tool" THEN Range(SHELL_TOOLS)
    ELSE IF executor = "execute_github_tool" THEN Range(heap[2])
    ELSE IF executor = "execute_llm_log_tool" THEN Range(LLM_LOG_TOOLS)
    ELSE IF executor = "execute_reliability_tool"
        THEN Range(RELIABILITY_TOOLS)
    ELSE {MEMORY_TOOL}

C13_DispatchReachesDeclaringModule ==
    \A i \in 1..Len(dispatched) :
        LET call == dispatched[i] IN
        /\ \A m \in Modules :
              call.name \in Declared(m) =>
                  call.executor = m /\ call.outcome = "function"
        /\ call.outcome = "not implemented in any module" <=>
              \A m \in Modules : call.name \notin Declared(m)

(***************************************************************************)
(* write_memory_file, memory.py:15-32.                                     *)
(*                                                                         *)
(* A path names the file memory/<path>. A file is absent or holds a text,  *)
(* a sequence of characters. open() can fail (the directory memory/ is     *)
(* never created by the code) and write() can fail after a part of the     *)
(* content was written; both are caught at line 31.                        *)
(***************************************************************************)
MaxFileLen == 2

allowed_paths ==
    {"notes.md", "goals.json", "tool-reliability.json", "llm-calls.log.jsonl"}
\* files that are not on the whitelist
OtherFiles == {"secrets.env", "../agent.py"}
Files == allowed_paths \cup OtherFiles
\* the path arguments tried: the whitelisted names, names of other files and
\* names that differ from a whitelisted one by case or by a prefix
Paths == Files \cup {"Notes.md", "./notes.md", ""}
Contents == {<<>>, <<"a">>, <<"a", "b">>}

Absent == [exists |-> FALSE, data |-> <<>>]
File(data) == [exists |-> TRUE, data |-> data]

MemoryInit ==
    /\ \E present \in SUBSET {"notes.md", "goals.json", "secrets.env"} :
          fs = [f \in Files |-> IF f \in present THEN File(<<"a">>) ELSE Absent]
    /\ lastWrite = [path |-> "", content |-> <<>>, result |-> "none"]

\* an earlier variant that opens every file for writing
Mode_AlwaysWrite(path) == "w"
\* line 26
Mode(path) == IF path = "notes.md" THEN "a" ELSE "w"

\* the file after open(mode) and a write of text
Opened(old, mode) == IF mode = "a" THEN old.data ELSE <<>>
AfterWrite(old, mode, text) == File(Opened(old, mode) \o text)

\* the environment of one call: everything works, open() raises, or write()
\* raises after the first k characters
Environments == {"ok", "open fails", "write fails"}

write_memory_file ==
    \E path \in Paths, content \in Contents, env \in Environments :
        IF path \notin allowed_paths
        THEN /\ lastWrite' = [path |-> path, content |-> content,
                              result |-> "Security error: Cannot write to"]
             /\ fs' = fs
        ELSE /\ Len(Opened(fs[path], Mode(path))) + Len(content) <= MaxFileLen
             /\ \/ /\ env = "ok"
                   /\ fs' = [fs EXCEPT ![path] = AfterWrite(@, Mode(path), content)]
                   /\ lastWrite' = [path |-> path, content |-> content,
                                    result |-> "Wrote to memory successfully"]
                \/ /\ env = "open fails"
                   /\ fs' = fs
                   /\ lastWrite' = [path |-> path, content |-> content,
                                    result |-> "Write error"]
                \/ /\ env = "write fails"
                   /\ \E k \in 0..(Len(content) - 1) :
                         fs' = [fs EXCEPT ![path] =
                                 AfterWrite(@, Mode(path), SubSeq(content, 1, k))]
                   /\ lastWrite' = [path |-> path, content |-> content,
                                    result |-> "Write error"]

MemoryNext == write_memory_file /\ UNCHANGED notMemory

InitMemory ==
    MemoryInit /\ ShellIdle /\ ToolsIdle /\ LogsIdle /\ ReliabilityIdle
SpecMemory == InitMemory /\ [][MemoryNext]_vars

(***************************************************************************)
(* C14: in every call of write_memory_file no file outside the whitelist   *)
(* is created or modified; a call with a path that is not one of the four  *)
(* names returns the security error and leaves every file unchanged; a     *)
(* write to notes.md appends to its prior content and a write to another   *)
(* whitelisted file replaces its content.                                  *)
(***************************************************************************)
Wrote == lastWrite.result = "Wrote to memory successfully"
OnlyChanged(path) == \A f \in Files \ {path} : fs'[f] = fs[f]

C14_OnlyWhitelistedFilesWritten ==
    [][/\ \A f \in Files \ allowed_paths : fs'[f] = fs[f]
       /\ lastWrite'.path \notin allowed_paths =>
             /\ lastWrite'.result = "Security error: Cannot write to"
             /\ fs' = fs
       /\ (lastWrite'.path = "notes.md" /\ Wrote') =>
             /\ fs'["notes.md"] = File(fs["notes.md"].data \o lastWrite'.content)
             /\ OnlyChanged("notes.md")
       /\ (lastWrite'.path \in allowed_paths \ {"notes.md"} /\ Wrote') =>
             /\ fs'[lastWrite'.path] = File(lastWrite'.content)
             /\ OnlyChanged(lastWrite'.path)]_vars

\* notes.md held a text and a call appended another to it
C14_Witness ==
    /\ lastWrite.path = "notes.md" /\ Wrote
    /\ lastWrite.content # <<>>
    /\ Len(fs["notes.md"].data) > Len(lastWrite.content)

(***************************************************************************)
(* query_llm_logs, llm_log_analyzer.py:106-160.                            *)
(*                                                                         *)
(* filter_expr and the model names are sequences of characters; a log      *)
(* entry is the record of the fields the filter reads.                     *)
(***************************************************************************)
MaxLogs == 2
MaxTerms == 2
MaxLimit == 2

COLON == ":"
GT == ">"
Digits == <<"0", "1", "2", "3", "4", "5", "6", "7", "8", "9">>

T_model == <<"m", "o", "d", "e", "l">>
T_duration == <<"d", "u", "r", "a", "t", "i", "o", "n">>
T_success_false == <<"s", "u", "c", "c", "e", "s", "s", ":", "f", "a", "l", "s", "e">>
T_tool_calls == <<"t", "o", "o", "l", "_", "c", "a", "l", "l", "s">>
M_Qwen == <<"Q", "w", "e", "n">>
M_gpt == <<"g", "p", "t">>
\* the terms tried: the four documented forms and "duration:>1"
F_model_Q == <<"m", "o", "d", "e", "l", ":", "Q">>
F_duration_gt_1 == <<"d", "u", "r", "a", "t", "i", "o", "n", ">", "1">>
F_success_false == <<"s", "u", "c", "c", "e", "s", "s", ":", "f", "a", "l", "s", "e">>
F_tool_calls_gt_0 == <<"t", "o", "o", "l", "_", "c", "a", "l", "l", "s", ">", "0">>
F_duration_colon_gt_1 == <<"d", "u", "r", "a", "t", "i", "o", "n", ":", ">", "1">>

\* str.lower, on the letters that occur
LowerChar(ch) == IF ch = "Q" THEN "q" ELSE ch
Lower(s) == [i \in 1..Len(s) |-> LowerChar(s[i])]

\* ch in s, for one character
HasChar(s, ch) == \E i \in 1..Len(s) : s[i] = ch
\* sub in s
IsSubstring(sub, s) ==
    \E i \in 0..(Len(s) - Len(sub)) : SubSeq(s, i + 1, i + Len(sub)) = sub

\* str.split() with no argument: the maximal runs of non-whitespace
RECURSIVE WordsFrom(_, _)
WordsFrom(s, word) ==
    IF s = <<>> THEN (IF word = <<>> THEN <<>> ELSE <<word>>)
    ELSE IF Head(s) \in Whitespace
        THEN (IF word = <<>> THEN <<>> ELSE <<word>>) \o WordsFrom(Tail(s), <<>>)
    ELSE WordsFrom(Tail(s), Append(word, Head(s)))
Words(s) == WordsFrom(s, <<>>)

\* f.split(":", 1): the text before the first colon and the text after it
FirstIndex(s, ch) == CHOOSE i \in 1..Len(s) : s[i] = ch /\ \A m \in 1..(i - 1) : s[m] # ch
SplitFirst(s, ch) ==
    <<SubSeq(s, 1, FirstIndex(s, ch) - 1), SubSeq(s, FirstIndex(s, ch) + 1, Len(s))>>

\* int(s) and float(s) on a text of decimal digits; anything else raises
\* ValueError
IsNumber(s) == s # <<>> /\ \A i \in 1..Len(s) : HasChar(Digits, s[i])
DigitValue(ch) == (CHOOSE d \in 1..10 : Digits[d] = ch) - 1
RECURSIVE NumberValue(_)
NumberValue(s) ==
    IF s = <<>> THEN 0
    ELSE 10 * NumberValue(SubSeq(s, 1, Len(s) - 1)) + DigitValue(s[Len(s)])

\* the threshold s.split(">")[1] of a term that holds a ">"
Threshold(s) == Split(s, GT)[2]

\* one pass of the loop over filters, lines 127-141, for one term f and one
\* entry: "no match", "raise" when the conversion of the threshold raises,
\* and "pass" when the term leaves match as it is
Term(f, e) ==
    IF HasChar(f, COLON)
    THEN LET key == SplitFirst(f, COLON)[1]
             val == SplitFirst(f, COLON)[2]
         IN IF key = T_model /\ ~IsSubstring(val, Lower(e.model))
            THEN "no match"
            ELSE IF key = T_duration /\ HasChar(val, GT)
            THEN IF ~IsNumber(Threshold(val)) THEN "raise"
                 ELSE IF e.duration_sec <= NumberValue(Threshold(val))
                 THEN "no match" ELSE "pass"
            ELSE "pass"
    ELSE IF IsSubstring(T_success_false, f) /\ e.success THEN "no match"
    ELSE IF IsSubstring(T_tool_calls, f) /\ HasChar(f, GT)
    THEN IF ~IsNumber(Threshold(f)) THEN "raise"
         ELSE IF e.tool_calls <= NumberValue(Threshold(f))
         THEN "no match" ELSE "pass"
    ELSE "pass"

\* the inner loop: every term is visited, also after match became False
Verdict(filters, e) ==
    IF \E i \in 1..Len(filters) : Term(filters[i], e) = "raise" THEN "raise"
    ELSE IF \E i \in 1..Len(filters) : Term(filters[i], e) = "no match"
    THEN "no match"
    ELSE "match"

\* the outer loop over logs[:limit * 5] from entry i on, with the results so
\* far; it stops when the results reach limit
RECURSIVE Scan(_, _, _, _, _)
Scan(entries, i, filters, lim, found) ==
    IF i > Len(entries) THEN [raised |-> FALSE, entries |-> found]
    ELSE LET v == Verdict(filters, entries[i]) IN
         IF v = "raise" THEN [raised |-> TRUE, entries |-> <<>>]
         ELSE IF v = "no match" THEN Scan(entries, i + 1, filters, lim, found)
         ELSE IF Len(found) + 1 >= lim
         THEN [raised |-> FALSE, entries |-> Append(found, entries[i])]
         ELSE Scan(entries, i + 1, filters, lim, Append(found, entries[i]))

\* logs[:n] for n >= 0
Slice(seq, n) == SubSeq(seq, 1, IF n < Len(seq) THEN n ELSE Len(seq))

Answer(kind, entries) == [kind |-> kind, entries |-> entries]

query_llm_logs_result(all, expr, lim) ==
    IF all = <<>> THEN Answer("No logs available.", <<>>)
    ELSE LET scan == Scan(Slice(all, lim * 5), 1, Words(Lower(expr)), lim, <<>>)
         IN IF scan.raised THEN Answer("ValueError", <<>>)
            ELSE IF scan.entries = <<>>
            THEN Answer("No matching LLM calls found for filter", <<>>)
            ELSE Answer("Found matching LLM calls", scan.entries)

\* the inputs
Models == {M_Qwen, M_gpt}
Entries ==
    [model : Models, duration_sec : {0, 2}, success : BOOLEAN,
     tool_calls : {0, 1}]
LogLists == UNION {[1..n -> Entries] : n \in 0..MaxLogs}
FilterTerms ==
    {F_model_Q, F_duration_gt_1, F_success_false, F_tool_calls_gt_0,
     F_duration_colon_gt_1}
RECURSIVE JoinWords(_)
JoinWords(ws) ==
    IF ws = <<>> THEN <<>>
    ELSE IF Len(ws) = 1 THEN ws[1]
    ELSE ws[1] \o <<SP>> \o JoinWords(Tail(ws))
FilterExprs ==
    {JoinWords(ws) : ws \in UNION {[1..n -> FilterTerms] : n \in 0..MaxTerms}}

LogsInit ==
    /\ logs \in LogLists
    /\ filter_expr \in FilterExprs
    /\ limit \in 1..MaxLimit
    /\ results = Answer("pending", <<>>)

query_llm_logs ==
    /\ results.kind = "pending"
    /\ results' = query_llm_logs_result(logs, filter_expr, limit)
    /\ UNCHANGED <<logs, filter_expr, limit>>

LogsNext == query_llm_logs /\ UNCHANGED notLogs

InitLogs ==
    LogsInit /\ ShellIdle /\ ToolsIdle /\ MemoryIdle /\ ReliabilityIdle
SpecLogs == InitLogs /\ [][LogsNext]_vars

(***************************************************************************)
(* C15: every entry returned by query_llm_logs satisfies every term of     *)
(* filter_expr in the documented forms "model:X", "duration>N",            *)
(* "success:false" and "tool_calls>N", and the number of returned entries  *)
(* never exceeds limit.                                                    *)
(***************************************************************************)
\* the text after a documented prefix
After(prefix, term) == SubSeq(term, Len(prefix) + 1, Len(term))
\* what a term in a documented form asks of an entry
Satisfies(e, term) ==
    /\ StartsWith(term, T_model \o <<COLON>>) =>
          IsSubstring(After(T_model \o <<COLON>>, term), Lower(e.model))
    /\ (StartsWith(term, T_duration \o <<GT>>)
          /\ IsNumber(After(T_duration \o <<GT>>, term))) =>
          e.duration_sec > NumberValue(After(T_duration \o <<GT>>, term))
    /\ term = T_success_false => ~e.success
    /\ (StartsWith(term, T_tool_calls \o <<GT>>)
          /\ IsNumber(After(T_tool_calls \o <<GT>>, term))) =>
          e.tool_calls > NumberValue(After(T_tool_calls \o <<GT>>, term))

C15_ReturnedEntriesSatisfyFilter ==
    /\ Len(results.entries) <= limit
    /\ \A i \in 1..Len(results.entries) :
          \A term \in Range(Words(Lower(filter_expr))) :
              Satisfies(results.entries[i], term)

(***************************************************************************)
(* record_tool_reliability, reliability.py:36-114.                         *)
(*                                                                         *)
(* The store is the file tool-reliability.json. Each caller runs the       *)
(* function as the code does: load the file (line 69), update the loaded   *)
(* copy in memory (72-102), then save (104), which opens the file for      *)
(* writing, truncating it, and then dumps the copy. Nothing in the code    *)
(* keeps two callers apart. Helpfulness is counted in halves.              *)
(***************************************************************************)
NumWorkers == 2
MaxRecords == 2

\* 1.0 in halves
One == 2

EmptyDict == [x \in {} |-> 0]
\* d[key] = value on a dict
Put(d, key, value) ==
    [x \in DOMAIN d \cup {key} |-> IF x = key THEN value ELSE d[x]]

\* lines 44-48
Default == [global |-> EmptyDict, per_goal |-> EmptyDict]
\* load_reliability_data: a missing or unreadable file gives the default
load_reliability_data == IF file.readable THEN file.data ELSE Default

\* an earlier variant that adds the helpfulness as passed
Clamp_Unclamped(helpfulness) == helpfulness
\* max(0.0, min(1.0, helpfulness))
Clamp(helpfulness) ==
    LET least == IF helpfulness < One THEN helpfulness ELSE One
    IN  IF least > 0 THEN least ELSE 0

Bump(success) == IF success THEN 1 ELSE 0

\* lines 72-85
GlobalStats(data, a) ==
    LET g == IF a.tool_name \in DOMAIN data.global
             THEN data.global[a.tool_name]
             ELSE [calls |-> 0, success_count |-> 0, helpfulness_sum |-> 0,
                   notes |-> <<>>]
    IN  [calls |-> g.calls + 1,
         success_count |-> g.success_count + Bump(a.success),
         helpfulness_sum |-> g.helpfulness_sum + Clamp(a.helpfulness),
         notes |-> IF a.notes # "" THEN Append(g.notes, a.notes) ELSE g.notes]

\* lines 88-102, for a goal_id that is not None
GoalStats(data, a) ==
    LET goal == IF a.goal_id \in DOMAIN data.per_goal
                THEN data.per_goal[a.goal_id] ELSE EmptyDict
        p == IF a.tool_name \in DOMAIN goal THEN goal[a.tool_name]
             ELSE [calls |-> 0, success_count |-> 0, helpfulness_sum |-> 0]
    IN  Put(goal, a.tool_name,
            [calls |-> p.calls + 1,
             success_count |-> p.success_count + Bump(a.success),
             helpfulness_sum |-> p.helpfulness_sum + Clamp(a.helpfulness)])

\* the loaded copy after lines 72-102
Updated(data, a) ==
    [global |-> Put(data.global, a.tool_name, GlobalStats(data, a)),
     per_goal |-> IF a.goal_id = "None" THEN data.per_goal
                  ELSE Put(data.per_goal, a.goal_id, GoalStats(data, a))]

\* the arguments tried; goal_id is None or the key str(goal_id), the
\* helpfulness is -0.5, 0.5 or 1.5 and notes is left at its default
RecordArgs ==
    [tool_name : {"", "run_safe_shell", "query_llm_logs"},
     goal_id : {"None", "1"},
     success : BOOLEAN,
     helpfulness : {-1, 1, 3},
     notes : {""}]

Workers == 1..NumWorkers
NoArgs ==
    [tool_name |-> "", goal_id |-> "None", success |-> FALSE,
     helpfulness |-> 0, notes |-> ""]
IdleWorker(ret) == [pc |-> "idle", args |-> NoArgs, data |-> Default, ret |-> ret]

ReliabilityInit ==
    /\ file = [readable |-> FALSE, data |-> Default]
    /\ wk = [w \in Workers |-> IdleWorker("")]
    /\ completed = [t \in {"run_safe_shell", "query_llm_logs"} |-> 0]

\* the calls begun that passed line 67
Begun ==
    completed["run_safe_shell"] + completed["query_llm_logs"]
        + Cardinality({w \in Workers : wk[w].pc # "idle"})

\* lines 66-67
RecordNoName(w) ==
    /\ wk[w].pc = "idle"
    /\ "" \in {a.tool_name : a \in RecordArgs}
    /\ wk' = [wk EXCEPT ![w] = IdleWorker("Error: tool_name required")]
    /\ UNCHANGED <<file, completed>>

\* line 69
RecordLoad(w) ==
    /\ wk[w].pc = "idle"
    /\ Begun < MaxRecords
    /\ \E a \in RecordArgs :
          /\ a.tool_name # ""
          /\ wk' = [wk EXCEPT ![w] = [pc |-> "loaded", args |-> a,
                                      data |-> load_reliability_data, ret |-> ""]]
    /\ UNCHANGED <<file, completed>>

\* lines 72-102 and the open(..., "w") of save_reliability_data, line 54
RecordOpen(w) ==
    /\ wk[w].pc = "loaded"
    /\ wk' = [wk EXCEPT ![w].data = Updated(wk[w].data, wk[w].args),
                        ![w].pc = "opened"]
    /\ file' = [readable |-> FALSE, data |-> Default]
    /\ UNCHANGED completed

\* json.dump, line 55, and the return of lines 109-114
RecordDump(w) ==
    /\ wk[w].pc = "opened"
    /\ file' = [readable |-> TRUE, data |-> wk[w].data]
    /\ completed' = [completed EXCEPT ![wk[w].args.tool_name] = @ + 1]
    /\ wk' = [wk EXCEPT ![w] = IdleWorker("Reliability recorded")]

ReliabilityNext ==
    \/ \E w \in Workers : RecordNoName(w) /\ UNCHANGED notReliability
    \/ \E w \in Workers : RecordLoad(w) /\ UNCHANGED notReliability
    \/ \E w \in Workers : RecordOpen(w) /\ UNCHANGED notReliability
    \/ \E w \in Workers : RecordDump(w) /\ UNCHANGED notReliability

InitReliability ==
    ReliabilityInit /\ ShellIdle /\ ToolsIdle /\ MemoryIdle /\ LogsIdle
SpecReliability == InitReliability /\ [][ReliabilityNext]_vars

(***************************************************************************)
(* C18: after any record_tool_reliability calls from an empty store every  *)
(* recorded tool has 0 <= success_count <= calls and                       *)
(* 0 <= helpfulness_sum <= calls, the per-goal calls and success_count of  *)
(* a tool never exceed its global ones, and a call with an empty           *)
(* tool_name leaves the store unchanged.                                   *)
(***************************************************************************)
\* what a reader of the store gets
Store == load_reliability_data
WithinCalls(stats) ==
    /\ 0 <= stats.success_count /\ stats.success_count <= stats.calls
    /\ 0 <= stats.helpfulness_sum /\ stats.helpfulness_sum <= One * stats.calls
StoreInvariant ==
    /\ \A t \in DOMAIN Store.global : WithinCalls(Store.global[t])
    /\ \A goal \in DOMAIN Store.per_goal :
          \A t \in DOMAIN Store.per_goal[goal] :
              /\ WithinCalls(Store.per_goal[goal][t])
              /\ t \in DOMAIN Store.global
              /\ Store.per_goal[goal][t].calls <= Store.global[t].calls
              /\ Store.per_goal[goal][t].success_count
                    <= Store.global[t].success_count
\* the step is a call that returned the error of line 67
NoNameCall ==
    \E w \in Workers :
        wk'[w] # wk[w] /\ wk'[w].ret = "Error: tool_name required"

C18_CountersStayWithinCalls ==
    []StoreInvariant /\ [][NoNameCall => file' = file]_vars

\* two calls with a helpfulness above 1.0, one of them for a goal, were
\* recorded for one tool
C18_Witness ==
    \E t \in DOMAIN Store.global :
        /\ Store.global[t].calls = 2
        /\ Store.global[t].helpfulness_sum = 2 * One
        /\ \E goal \in DOMAIN Store.per_goal :
              /\ t \in DOMAIN Store.per_goal[goal]
              /\ Store.per_goal[goal][t].calls = 1

(***************************************************************************)
(* C19: when all the concurrent record_tool_reliability calls have         *)
(* completed, the global calls counter of every tool equals the number of  *)
(* completed record calls for that tool.                                   *)
(***************************************************************************)
AllCompleted == \A w \in Workers : wk[w].pc = "idle"
RecordedCalls(t) ==
    IF t \in DOMAIN Store.global THEN Store.global[t].calls ELSE 0

C19_NoRecordedCallLost ==
    AllCompleted => \A t \in DOMAIN completed : RecordedCalls(t) = completed[t]

====
